---- MODULE Spec2Model ----
(***************************************************************************)
(* vram-lock: the allocate / verify / lock session of vram_lock.cpp (CUDA  *)
(* driver API) and vram_lock_vulcan.cpp (Vulkan).  The state is the        *)
(* VramLockState object plus main's locals; every action is one statement  *)
(* group of main or of a VramLockState method, bracketed by the backend    *)
(* calls it issues.  The backend (device memory) is the environment: an    *)
(* allocation may fail at any time, a fill / readback / free may fail, and *)
(* a readback may deliver any content.                                     *)
(*                                                                         *)
(* C++ vectors are 0-based, TLA+ sequences 1-based: element i of a vector  *)
(* is element i + 1 of the sequence that models it.                        *)
(***************************************************************************)
EXTENDS Integers, Sequences, FiniteSets, TLC

\* Bounds of the model.
MaxSlices == 3      \* the device serves at most this many allocations
SliceBytes == 2     \* slice_bytes: the length of a slice and of host1 / host2

\* Program constants.
FILL_BYTE == 165    \* 0xA5

\* size_t arithmetic wraps; the model keeps 16 of its bits (no count of the model
\* comes near).
SizeModulus == 2 ^ 16

Backends == {"cuda", "vulkan"}

\* The results of make_allocation: success, or a failure code of the backend
\* (out of memory, or another one: create_buffer_and_memory also returns
\* VK_ERROR_FEATURE_NOT_PRESENT).
Success == "SUCCESS"
AllocErrors(b) ==
  IF b = "cuda"
  THEN {"CUDA_ERROR_OUT_OF_MEMORY", "CUDA_ERROR_UNKNOWN"}
  ELSE {"VK_ERROR_OUT_OF_DEVICE_MEMORY", "VK_ERROR_FEATURE_NOT_PRESENT"}

\* The byte values a readback may deliver: the fill byte and a wrong one.
ByteVals == {0, FILL_BYTE}
Contents == [1..SliceBytes -> ByteVals]

\* std::vector<uint8_t> host(slice_bytes): value-initialised, all zero.
ZeroBuffer == [i \in 1..SliceBytes |-> 0]

\* The status strings of the two programs.
StatusStarting == "Starting..."
StatusFilling == "Allocated slice; filling pattern..."
StatusCopy1 == "Copying (pass 1)..."
StatusCopy2 == "Copying (pass 2)..."
StatusMismatch == "MISMATCH detected: locking faulty chunk and continuing..."
StatusOK == "OK"
StatusStop(b) ==
  IF b = "cuda"
  THEN "STOP: cuMemAlloc failed (likely OOM). Freeing all OK slices; keeping only faulty locked."
  ELSE "STOP: allocation failed (likely OOM). Freeing all OK slices; keeping only faulty locked."

VARIABLES
  backend,              \* which of the two programs runs
  pc,                   \* main's position
  exit_code,            \* -1 while the process lives, else the status of std::exit
  idx,                  \* main: size_t idx
  this_idx,             \* main: const size_t this_idx
  alloc_r,              \* main: r, the result of the last make_allocation
  allocations,          \* VramLockState::allocations (CUDA) / slices (Vulkan)
  map,                  \* VramLockState::map
  ok_count,             \* VramLockState::ok_count
  bad_count,            \* VramLockState::bad_count
  host1,                \* VramLockState::host1
  host2,                \* VramLockState::host2
  staging,              \* VramLockState::staging (Vulkan): the mapped staging buffer
  delivered,            \* what the device delivered to the readbacks of the slice under test
  last_status,          \* VramLockState::last_status
  last_md5_ok,          \* VramLockState::last_md5_ok
  last_md5_1,           \* VramLockState::last_md5_1
  last_md5_2,           \* VramLockState::last_md5_2
  finalized_after_oom,  \* VramLockState::finalized_after_oom
  calls,                \* the backend calls issued so far, in order
  reclaim_calls,        \* how often free_all_except_faulty was entered
  test_calls,           \* per map entry, how often test_pointer was entered on it
  reports,              \* the reports render_ui has drawn so far, in order
  argv,                 \* main: argv[1..argc-1], each a sequence of characters
  gpu_index,            \* main: unsigned int gpu_index
  slice_mib,            \* main: unsigned int slice_mib
  usage_printed,        \* how often usage() was called
  vk_attempt,           \* Vulkan: the resource calls of the latest make_allocation
  readbacks,            \* per verified slice, whether its two readbacks were equal
  run,                  \* 1: the first program runs; 2: the other one, fed its outcomes
  first                 \* the outcomes and the reports of the first program

vars == <<backend, pc, exit_code, idx, this_idx, alloc_r, allocations, map,
          ok_count,
          bad_count, host1, host2, staging, delivered, last_status, last_md5_ok, last_md5_1,
          last_md5_2, finalized_after_oom, calls, reclaim_calls, test_calls,
          reports, argv, gpu_index, slice_mib, usage_printed, vk_attempt, readbacks,
          run, first>>

\* The fields of VramLockState that no backend call and no report touches.
registry == <<allocations, map, ok_count, bad_count, finalized_after_oom>>
strings == <<last_status, last_md5_ok, last_md5_1, last_md5_2>>
scratch == <<host1, host2, staging, delivered>>
locals == <<idx, this_idx, alloc_r>>
cli == <<argv, gpu_index, slice_mib, usage_printed>>
harness == <<run, first>>

----------------------------------------------------------------------------
\* Helpers over the backend call log.

Call(op, h, ok) == [op |-> op, h |-> h, ok |-> ok]

CallsOf(log, op) == {i \in 1..Len(log) : log[i].op = op}

\* Handles a successful allocation returned.
Allocated(log) == {log[i].h : i \in {j \in CallsOf(log, "alloc") : log[j].ok}}

\* The handle slice k (1-based) was given at its creation.
SuccessfulAllocs(log) == SelectSeq(log, LAMBDA c : c.op = "alloc" /\ c.ok)
HandleOf(log, k) == SuccessfulAllocs(log)[k].h

\* Handles ever passed to a free call.
FreeArgs(log) == {log[i].h : i \in CallsOf(log, "free")}

\* Handles a successful free released.
Freed(log) == {log[i].h : i \in {j \in CallsOf(log, "free") : log[j].ok}}

\* Number of allocation attempts that succeeded / failed.
AllocSucceeded(log) == Cardinality({i \in CallsOf(log, "alloc") : log[i].ok})
AllocFailed(log) == Cardinality({i \in CallsOf(log, "alloc") : ~log[i].ok})

\* The handle the backend returns next: device addresses of live allocations
\* are distinct; a fresh number per successful allocation.
NextHandle(log) == AllocSucceeded(log) + 1

----------------------------------------------------------------------------
\* Pure functions of the programs.

\* count_char(v, c)
count_char(v, c) == Cardinality({i \in 1..Len(v) : v[i] = c})

\* finalize_map_after_oom: '#' and '?' become '.', 'X' stays.
finalize_map_after_oom_all(m) == [i \in 1..Len(m) |-> "."]
finalize_map_after_oom_erase(m) == SelectSeq(m, LAMBDA c : c = "X")
finalize_map_after_oom(m) ==
  [i \in 1..Len(m) |-> IF m[i] = "#" \/ m[i] = "?" THEN "." ELSE m[i]]

\* std::memcmp(host1, host2, slice_bytes): 0 iff equal, else the sign of the
\* first differing byte pair.
memcmp_first_byte(a, b) == IF a[1] = b[1] THEN 0 ELSE IF a[1] < b[1] THEN -1 ELSE 1
memcmp(a, b) ==
  LET diff == {i \in 1..SliceBytes : a[i] # b[i]}
  IN  IF diff = {} THEN 0
      ELSE LET f == CHOOSE i \in diff : \A j \in diff : i <= j
           IN  IF a[f] < b[f] THEN -1 ELSE 1

\* test_pointer / test_slice, the marking of map[idx] by cmp: 'X' and ++bad_count
\* when the copies differ, '#' and ++ok_count when they are equal.
map_after_unmarked(m, i, cmp) == m
map_after_first(m, i, cmp) == [m EXCEPT ![1] = IF cmp # 0 THEN "X" ELSE "#"]
map_after(m, i, cmp) == [m EXCEPT ![i + 1] = IF cmp # 0 THEN "X" ELSE "#"]

ok_after_always(ok, cmp) == ok + 1
ok_after(ok, cmp) == IF cmp # 0 THEN ok ELSE ok + 1

bad_after_missing(bad, cmp) == bad
bad_after(bad, cmp) == IF cmp # 0 THEN bad + 1 ELSE bad

\* render_ui: the report as the values it prints.
render_ui(idx_next, allocations_held, fin, m, ok, bad, status, md5_ok, md5_1, md5_2) ==
  LET in_progress == IF fin THEN 0 ELSE count_char(m, "?")
      locked_faulty == count_char(m, "X")
  IN  [ finalized |-> fin,
        slices_held |-> IF fin THEN locked_faulty ELSE allocations_held,
        allocations_held |-> allocations_held,
        ok |-> ok,
        bad |-> bad,
        in_progress |-> in_progress,
        map_entries |-> Len(m),
        idx_next |-> idx_next,
        last_status |-> status,
        compare_1 |-> IF md5_1 # "" /\ md5_2 # "" THEN md5_1 ELSE "",
        compare_2 |-> IF md5_1 # "" /\ md5_2 # "" THEN md5_2 ELSE "",
        compare |-> IF md5_1 # "" /\ md5_2 # "" THEN ""
                    ELSE IF md5_ok # "" THEN md5_ok ELSE "",
        map |-> m ]

\* The report of the current state, as every call site of main passes it.
CurrentReport ==
  render_ui(idx, Len(allocations), finalized_after_oom, map, ok_count, bad_count,
            last_status, last_md5_ok, last_md5_1, last_md5_2)

\* free_all_except_faulty: the loop from element i on.  fail_at is the element
\* whose cuMemFree fails (0: none fails); die_cuda then exits.
RECURSIVE free_loop(_, _, _, _, _, _)
free_loop(allocs, m, i, kept, log, fail_at) ==
  IF i > Len(allocs)
  THEN [exited |-> FALSE, allocations |-> kept, calls |-> log]
  ELSE IF m[i] = "X"
  THEN free_loop(allocs, m, i + 1, Append(kept, allocs[i]), log, fail_at)
  ELSE IF i = fail_at
  THEN [exited |-> TRUE, allocations |-> allocs,
        calls |-> Append(log, Call("free", allocs[i], FALSE))]
  ELSE free_loop(allocs, m, i + 1, kept, Append(log, Call("free", allocs[i], TRUE)),
                 fail_at)

\* free_all_except_faulty without the size check; keeping every handle; freeing
\* the faulty handles too.
free_all_except_faulty_unchecked(allocs, m, fail_at) ==
  free_loop(allocs, [i \in 1..Len(allocs) |-> m[i]], 1, <<>>, <<>>, fail_at)
free_all_except_faulty_keep(allocs, m, fail_at) ==
  [exited |-> FALSE, allocations |-> allocs, calls |-> <<>>]
free_all_except_faulty_frees_faulty(allocs, m, fail_at) ==
  free_loop(allocs, [i \in 1..Len(m) |-> "#"], 1, <<>>, <<>>, fail_at)

\* The loop starting at the second element.
free_all_except_faulty_from_second(allocs, m, fail_at) ==
  IF Len(allocs) # Len(m)
  THEN [exited |-> TRUE, allocations |-> allocs, calls |-> <<>>]
  ELSE IF Len(allocs) = 0
  THEN [exited |-> FALSE, allocations |-> allocs, calls |-> <<>>]
  ELSE free_loop(allocs, m, 2, <<allocs[1]>>, <<>>, fail_at)

\* The loop run a second time over the same list.
free_all_except_faulty_twice(allocs, m, fail_at) ==
  IF Len(allocs) # Len(m)
  THEN [exited |-> TRUE, allocations |-> allocs, calls |-> <<>>]
  ELSE LET r == free_loop(allocs, m, 1, <<>>, <<>>, fail_at)
       IN  [r EXCEPT !.calls = r.calls \o r.calls]

\* free_all_except_faulty: the size check, then the loop, then the swap.
free_all_except_faulty(allocs, m, fail_at) ==
  IF Len(allocs) # Len(m)
  THEN [exited |-> TRUE, allocations |-> allocs, calls |-> <<>>]
  ELSE free_loop(allocs, m, 1, <<>>, <<>>, fail_at)

\* The elements whose free can fail: cuMemFree returns a CUresult that die_cuda
\* tests; destroy_slice (Vulkan) returns nothing.
FreeFailures(b, allocs, m) ==
  {0} \cup (IF b = "cuda" /\ Len(allocs) = Len(m)
            THEN {i \in 1..Len(allocs) : m[i] # "X"} ELSE {})

\* test_pointer / test_slice: if (idx >= allocations.size() || idx >= map.size()).
test_pointer_range_error_off_by_one(i, allocs, m) ==
  i + 1 >= Len(allocs) \/ i + 1 >= Len(m)
test_pointer_range_error(i, allocs, m) == i >= Len(allocs) \/ i >= Len(m)

\* test_pointer(idx) / test_slice(idx) as one call on a registry, the fill and
\* both readbacks succeeding and delivering c1 and c2: the range check, then
\* memcmp and the marking.
test_pointer(i, allocs, m, ok, bad, c1, c2) ==
  IF test_pointer_range_error(i, allocs, m)
  THEN [exited |-> TRUE, map |-> m, ok_count |-> ok, bad_count |-> bad]
  ELSE LET cmp == memcmp(c1, c2)
       IN  [exited |-> FALSE, map |-> map_after(m, i, cmp),
            ok_count |-> ok_after(ok, cmp), bad_count |-> bad_after(bad, cmp)]

\* Vulkan handles: VK_NULL_HANDLE, the buffer and the memory an attempt
\* creates, and the content of an output parameter a failed call left undefined.
VK_NULL_HANDLE == "VK_NULL_HANDLE"
VkUndefined == {VK_NULL_HANDLE, "UNDEFINED"}

\* The calls of create_buffer_and_memory that can fail (find_memory_type finds
\* no type: VK_ERROR_FEATURE_NOT_PRESENT).
VkFailSteps ==
  {"vkCreateBuffer", "find_memory_type", "vkAllocateMemory", "vkBindBufferMemory"}

VkCall(op, obj, ok) == [op |-> op, obj |-> obj, ok |-> ok]

\* create_buffer_and_memory with the error paths leaving the handles set.
create_buffer_and_memory_keeps_handles(step, junk) ==
  LET create(ok) == VkCall("vkCreateBuffer", "BUF", ok)
      alloc(ok) == VkCall("vkAllocateMemory", "MEM", ok)
      bind(ok) == VkCall("vkBindBufferMemory", "BUF", ok)
      destroy == VkCall("vkDestroyBuffer", "BUF", TRUE)
      free == VkCall("vkFreeMemory", "MEM", TRUE)
      errors == AllocErrors("vulkan") \ {"VK_ERROR_FEATURE_NOT_PRESENT"}
  IN  CASE step = "vkCreateBuffer" ->
             [r |-> errors, out_buf |-> junk, out_mem |-> VK_NULL_HANDLE,
              log |-> <<create(FALSE)>>]
        [] step = "find_memory_type" ->
             [r |-> {"VK_ERROR_FEATURE_NOT_PRESENT"}, out_buf |-> "BUF",
              out_mem |-> VK_NULL_HANDLE, log |-> <<create(TRUE), destroy>>]
        [] step = "vkAllocateMemory" ->
             [r |-> errors, out_buf |-> "BUF", out_mem |-> VK_NULL_HANDLE,
              log |-> <<create(TRUE), alloc(FALSE), destroy>>]
        [] step = "vkBindBufferMemory" ->
             [r |-> errors, out_buf |-> "BUF", out_mem |-> "MEM",
              log |-> <<create(TRUE), alloc(TRUE), bind(FALSE), free, destroy>>]
        [] OTHER ->
             [r |-> {Success}, out_buf |-> "BUF", out_mem |-> "MEM",
              log |-> <<create(TRUE), alloc(TRUE), bind(TRUE)>>]

\* create_buffer_and_memory: the three calls, each error path releasing what
\* the earlier calls created and resetting the output handles.  After a failed
\* vkCreateBuffer out_buf is what the call left in it.
create_buffer_and_memory(step, junk) ==
  LET create(ok) == VkCall("vkCreateBuffer", "BUF", ok)
      alloc(ok) == VkCall("vkAllocateMemory", "MEM", ok)
      bind(ok) == VkCall("vkBindBufferMemory", "BUF", ok)
      destroy == VkCall("vkDestroyBuffer", "BUF", TRUE)
      free == VkCall("vkFreeMemory", "MEM", TRUE)
      errors == AllocErrors("vulkan") \ {"VK_ERROR_FEATURE_NOT_PRESENT"}
  IN  CASE step = "vkCreateBuffer" ->
             [r |-> errors, out_buf |-> junk, out_mem |-> VK_NULL_HANDLE,
              log |-> <<create(FALSE)>>]
        [] step = "find_memory_type" ->
             [r |-> {"VK_ERROR_FEATURE_NOT_PRESENT"}, out_buf |-> VK_NULL_HANDLE,
              out_mem |-> VK_NULL_HANDLE, log |-> <<create(TRUE), destroy>>]
        [] step = "vkAllocateMemory" ->
             [r |-> errors, out_buf |-> VK_NULL_HANDLE, out_mem |-> VK_NULL_HANDLE,
              log |-> <<create(TRUE), alloc(FALSE), destroy>>]
        [] step = "vkBindBufferMemory" ->
             [r |-> errors, out_buf |-> VK_NULL_HANDLE, out_mem |-> VK_NULL_HANDLE,
              log |-> <<create(TRUE), alloc(TRUE), bind(FALSE), free, destroy>>]
        [] OTHER ->
             [r |-> {Success}, out_buf |-> "BUF", out_mem |-> "MEM",
              log |-> <<create(TRUE), alloc(TRUE), bind(TRUE)>>]

\* VramLockState::make_allocation (Vulkan) up to its push_back: on failure it
\* destroys whatever handle is not VK_NULL_HANDLE.  r is the set of results the
\* attempt can return.
vk_make_allocation(step, junk) ==
  LET c == create_buffer_and_memory(step, junk)
  IN  IF c.r # {Success}
      THEN [r |-> c.r, pushed |-> FALSE,
            log |-> c.log
                    \o (IF c.out_buf # VK_NULL_HANDLE
                        THEN <<VkCall("vkDestroyBuffer", c.out_buf, TRUE)>> ELSE <<>>)
                    \o (IF c.out_mem # VK_NULL_HANDLE
                        THEN <<VkCall("vkFreeMemory", c.out_mem, TRUE)>> ELSE <<>>)]
      ELSE [r |-> c.r, pushed |-> TRUE, log |-> c.log]

\* main: the defaults of the arguments; the harness before a first program ended.
DefaultGpuIndex == <<0>>
DefaultSliceMib == <<5, 1, 2>>
NoFirst == [calls |-> <<>>, readbacks |-> <<>>, reports |-> <<>>]

----------------------------------------------------------------------------
\* The command line.

\* Bounds of the command lines and of the machines explored.
MaxArgs == 3
MaxDevices == 2

\* The arguments tried, as sequences of characters: "", "-h", "--help", "0",
\* "7", "-0", "1x", "-1", "4294967295" and "4294967296".
ArgTokens ==
  { <<>>,
    <<"-", "h">>,
    <<"-", "-", "h", "e", "l", "p">>,
    <<"0">>,
    <<"7">>,
    <<"-", "0">>,
    <<"1", "x">>,
    <<"-", "1">>,
    <<"4", "2", "9", "4", "9", "6", "7", "2", "9", "5">>,
    <<"4", "2", "9", "4", "9", "6", "7", "2", "9", "6">> }

ArgVectors == UNION {[1..n -> ArgTokens] : n \in 0..MaxArgs}

HelpFlags == { <<"-", "h">>, <<"-", "-", "h", "e", "l", "p">> }

\* Decimal numbers as sequences of digits, most significant first, so that
\* values beyond the checker's integers can be compared.
DigitChars == <<"0", "1", "2", "3", "4", "5", "6", "7", "8", "9">>
IsDigit(c) == \E d \in 1..Len(DigitChars) : DigitChars[d] = c
DigitValue(c) == (CHOOSE d \in 1..Len(DigitChars) : DigitChars[d] = c) - 1

RECURSIVE DecNorm(_)
DecNorm(ds) ==
  IF Len(ds) > 1 /\ ds[1] = 0 THEN DecNorm(Tail(ds))
  ELSE IF Len(ds) = 0 THEN <<0>> ELSE ds

RECURSIVE DecLessNorm(_, _)
DecLessNorm(a, b) ==
  IF Len(a) # Len(b) THEN Len(a) < Len(b)
  ELSE IF Len(a) = 0 THEN FALSE
  ELSE IF a[1] # b[1] THEN a[1] < b[1]
  ELSE DecLessNorm(Tail(a), Tail(b))

DecLess(a, b) == DecLessNorm(DecNorm(a), DecNorm(b))

\* 0xFFFFFFFFul.
U32Max == <<4, 2, 9, 4, 9, 6, 7, 2, 9, 5>>

\* strtoul(s, &end, 10): leading white space, an optional sign, then digits.
\* `end` is the position of the first character not consumed (Len(s) + 1: all
\* consumed; 1: no conversion was performed).
RECURSIVE SkipSpace(_, _)
SkipSpace(s, i) == IF i <= Len(s) /\ s[i] = " " THEN SkipSpace(s, i + 1) ELSE i

RECURSIVE DigitsEnd(_, _)
DigitsEnd(s, i) == IF i <= Len(s) /\ IsDigit(s[i]) THEN DigitsEnd(s, i + 1) ELSE i

strtoul(s) ==
  LET i0 == SkipSpace(s, 1)
      neg == i0 <= Len(s) /\ s[i0] = "-"
      i1 == IF i0 <= Len(s) /\ s[i0] \in {"-", "+"} THEN i0 + 1 ELSE i0
      i2 == DigitsEnd(s, i1)
  IN  IF i2 = i1
      THEN [end |-> 1, neg |-> FALSE, digits |-> <<0>>]
      ELSE [end |-> i2, neg |-> neg,
            digits |-> DecNorm([k \in 1..(i2 - i1) |-> DigitValue(s[i1 + k - 1])])]

\* parse_u32: empty string, unconsumed characters and values above 0xFFFFFFFF
\* are refused.  A negated value is ULONG_MAX + 1 - digits (unsigned long of 64
\* bits), above 0xFFFFFFFF for every nonzero number of up to 19 digits.
parse_u32(s) ==
  IF Len(s) = 0 THEN [ok |-> FALSE, value |-> <<0>>]
  ELSE LET t == strtoul(s)
       IN  IF t.end # Len(s) + 1 THEN [ok |-> FALSE, value |-> <<0>>]
           ELSE IF t.neg /\ t.digits # <<0>> THEN [ok |-> FALSE, value |-> <<0>>]
           ELSE IF DecLess(U32Max, t.digits) THEN [ok |-> FALSE, value |-> <<0>>]
           ELSE [ok |-> TRUE, value |-> t.digits]

\* The outcome of main's argument handling.
ArgsResult(returned, code, usage, gpu, mib) ==
  [returned |-> returned, code |-> code, usage |-> usage, gpu_index |-> gpu,
   slice_mib |-> mib]

\* main's argument handling without the argc >= 4 test.
main_args_no_excess_test(av) ==
  LET argc == Len(av) + 1
      p1 == IF argc >= 2 THEN parse_u32(av[1]) ELSE [ok |-> TRUE, value |-> DefaultGpuIndex]
      p2 == IF argc >= 3 THEN parse_u32(av[2]) ELSE [ok |-> TRUE, value |-> DefaultSliceMib]
  IN  IF argc >= 2 /\ av[1] \in HelpFlags
      THEN ArgsResult(TRUE, 0, 1, DefaultGpuIndex, DefaultSliceMib)
      ELSE IF argc >= 2 /\ ~p1.ok
      THEN ArgsResult(TRUE, 2, 1, DefaultGpuIndex, DefaultSliceMib)
      ELSE IF argc >= 3 /\ (~p2.ok \/ p2.value = <<0>>)
      THEN ArgsResult(TRUE, 2, 1, p1.value, DefaultSliceMib)
      ELSE ArgsResult(FALSE, 0, 0, p1.value, p2.value)

\* main, the argument handling: the help flag, gpu_index, slice_mebibytes, then
\* the number of arguments.
main_args(av) ==
  LET argc == Len(av) + 1
      p1 == IF argc >= 2 THEN parse_u32(av[1]) ELSE [ok |-> TRUE, value |-> DefaultGpuIndex]
      p2 == IF argc >= 3 THEN parse_u32(av[2]) ELSE [ok |-> TRUE, value |-> DefaultSliceMib]
  IN  IF argc >= 2 /\ av[1] \in HelpFlags
      THEN ArgsResult(TRUE, 0, 1, DefaultGpuIndex, DefaultSliceMib)
      ELSE IF argc >= 2 /\ ~p1.ok
      THEN ArgsResult(TRUE, 2, 1, DefaultGpuIndex, DefaultSliceMib)
      ELSE IF argc >= 3 /\ (~p2.ok \/ p2.value = <<0>>)
      THEN ArgsResult(TRUE, 2, 1, p1.value, DefaultSliceMib)
      ELSE IF argc >= 4
      THEN ArgsResult(TRUE, 2, 1, p1.value, DefaultSliceMib)
      ELSE ArgsResult(FALSE, 0, 0, p1.value, p2.value)

----------------------------------------------------------------------------
\* The session.

Init ==
  /\ backend \in Backends
  /\ pc = "render_top"
  /\ exit_code = -1
  /\ idx = 0
  /\ this_idx = 0
  /\ alloc_r = Success
  /\ allocations = <<>>
  /\ map = <<>>
  /\ ok_count = 0
  /\ bad_count = 0
  /\ host1 = ZeroBuffer
  /\ host2 = ZeroBuffer
  /\ staging = ZeroBuffer
  /\ delivered = <<>>
  /\ last_status = StatusStarting
  /\ last_md5_ok = ""
  /\ last_md5_1 = ""
  /\ last_md5_2 = ""
  /\ finalized_after_oom = FALSE
  /\ calls = <<>>
  /\ reclaim_calls = 0
  /\ test_calls = <<>>
  /\ reports = <<>>
  /\ argv = <<>>
  /\ gpu_index = DefaultGpuIndex
  /\ slice_mib = DefaultSliceMib
  /\ usage_printed = 0
  /\ vk_attempt = <<>>
  /\ readbacks = <<>>
  /\ run = 1
  /\ first = NoFirst

\* std::exit(code) from die_cuda / die_vk / die.
Exit(code) ==
  /\ pc' = "exited"
  /\ exit_code' = code

\* main: the arguments; usage() and return on the help flag and on an error.
ParseArgs ==
  /\ pc = "parse_args"
  /\ LET a == main_args(argv)
     IN  /\ usage_printed' = usage_printed + a.usage
         /\ gpu_index' = a.gpu_index
         /\ slice_mib' = a.slice_mib
         /\ IF a.returned
            THEN Exit(a.code)
            ELSE pc' = "init_backend" /\ UNCHANGED exit_code
  /\ UNCHANGED <<backend, argv, harness, vk_attempt, readbacks, locals, registry,
                 scratch, strings, calls, reclaim_calls, test_calls, reports>>

\* main (CUDA): cuInit, cuDeviceGetCount, the two tests of the count,
\* cuDeviceGet, cuCtxCreate.  VramLockState::init (Vulkan): init_vulkan, which
\* dies when there is no device and exits with 2 when gpu_index names none,
\* then the staging buffer.  up_to / after: a backend call before / after the
\* tests fails.
InitBackend ==
  /\ pc = "init_backend"
  /\ \E up_to \in BOOLEAN, device_count \in 0..MaxDevices, after \in BOOLEAN :
       IF ~up_to THEN Exit(1)
       ELSE IF device_count = 0 THEN Exit(1)
       ELSE IF ~DecLess(gpu_index, <<device_count>>) THEN Exit(2)
       ELSE IF ~after THEN Exit(1)
       ELSE pc' = "render_top" /\ UNCHANGED exit_code
  /\ UNCHANGED <<backend, cli, harness, vk_attempt, readbacks, locals, registry,
                 scratch, strings, calls, reclaim_calls, test_calls, reports>>

\* main: a render_ui call at position `at`, continuing at `next`.
Render(at, next) ==
  /\ pc = at
  /\ pc' = next
  /\ reports' = Append(reports, CurrentReport)
  /\ UNCHANGED <<backend, cli, harness, vk_attempt, readbacks, exit_code, locals,
                 registry, scratch, strings, calls,
                 reclaim_calls, test_calls>>

\* main: render_ui at the top of the loop.
RenderTop == Render("render_top", "alloc")

\* make_allocation, the backend allocating.
make_allocation_ok ==
  /\ pc = "alloc"
  /\ Len(map) < MaxSlices
  /\ LET dptr == NextHandle(calls)
     IN  /\ allocations' = Append(allocations, dptr)
         /\ map' = Append(map, "?")
         /\ calls' = Append(calls, Call("alloc", dptr, TRUE))
  /\ test_calls' = Append(test_calls, 0)
  /\ alloc_r' = Success
  /\ vk_attempt' = IF backend = "vulkan"
                   THEN vk_make_allocation("none", VK_NULL_HANDLE).log ELSE <<>>
  /\ pc' = "post_alloc"
  /\ UNCHANGED <<backend, cli, harness, readbacks, exit_code, idx, this_idx, ok_count,
                 bad_count,
                 finalized_after_oom, scratch, strings, reclaim_calls, reports>>

\* make_allocation pushing the map entry before it tests the result.
make_allocation_fail_pushes ==
  /\ pc = "alloc"
  /\ calls' = Append(calls, Call("alloc", 0, FALSE))
  /\ UNCHANGED vk_attempt
  /\ map' = Append(map, "?")
  /\ test_calls' = Append(test_calls, 0)
  /\ alloc_r' \in AllocErrors(backend)
  /\ pc' = "oom_status"
  /\ UNCHANGED <<backend, cli, harness, readbacks, exit_code, idx, this_idx, allocations,
                 ok_count, bad_count,
                 finalized_after_oom, scratch, strings, reclaim_calls, reports>>

\* main passing a result that is not out-of-memory to the fatal helper.
make_allocation_fail_dies ==
  /\ pc = "alloc"
  /\ calls' = Append(calls, Call("alloc", 0, FALSE))
  /\ UNCHANGED vk_attempt
  /\ \E r \in AllocErrors(backend) :
       /\ alloc_r' = r
       /\ IF r \in {"CUDA_ERROR_OUT_OF_MEMORY", "VK_ERROR_OUT_OF_DEVICE_MEMORY"}
          THEN pc' = "oom_status" /\ UNCHANGED exit_code
          ELSE Exit(1)
  /\ UNCHANGED <<backend, cli, harness, readbacks, idx, this_idx, registry, scratch,
                 strings, reclaim_calls,
                 test_calls, reports>>

\* make_allocation, the backend refusing: the result is returned, nothing pushed.
make_allocation_fail ==
  /\ pc = "alloc"
  /\ calls' = Append(calls, Call("alloc", 0, FALSE))
  /\ IF backend = "vulkan"
     THEN \E step \in VkFailSteps, junk \in VkUndefined :
            LET a == vk_make_allocation(step, junk)
            IN  /\ vk_attempt' = a.log
                /\ alloc_r' \in a.r
     ELSE /\ alloc_r' \in AllocErrors(backend)
          /\ UNCHANGED vk_attempt
  /\ pc' = "oom_status"
  /\ UNCHANGED <<backend, cli, harness, readbacks, exit_code, idx, this_idx, registry,
                 scratch, strings,
                 reclaim_calls, test_calls, reports>>

\* The failure branch forgetting the reclamation.
OomStatus_skips_reclaim ==
  /\ pc = "oom_status"
  /\ last_status' = StatusStop(backend)
  /\ last_md5_1' = ""
  /\ last_md5_2' = ""
  /\ pc' = "finalize_map"
  /\ UNCHANGED <<backend, cli, harness, vk_attempt, readbacks, exit_code, locals,
                 registry, scratch, last_md5_ok, calls,
                 reclaim_calls, test_calls, reports>>

\* main, r != SUCCESS: the terminal status.
OomStatus ==
  /\ pc = "oom_status"
  /\ last_status' = StatusStop(backend)
  /\ last_md5_1' = ""
  /\ last_md5_2' = ""
  /\ pc' = "reclaim"
  /\ UNCHANGED <<backend, cli, harness, vk_attempt, readbacks, exit_code, locals,
                 registry, scratch, last_md5_ok, calls,
                 reclaim_calls, test_calls, reports>>

\* The reclamation with the result of cuMemFree left untested.
Reclaim_ignores_failure ==
  /\ pc = "reclaim"
  /\ reclaim_calls' = reclaim_calls + 1
  /\ \E fail_at \in FreeFailures(backend, allocations, map) :
       LET r == free_all_except_faulty(allocations, map, fail_at)
       IN  /\ calls' = calls \o r.calls
           /\ allocations' = r.allocations
  /\ pc' = "finalize_map"
  /\ UNCHANGED <<backend, cli, harness, vk_attempt, readbacks, exit_code, locals, map,
                 ok_count, bad_count,
                 finalized_after_oom, scratch, strings, test_calls, reports>>

\* main: state.free_all_except_faulty().
Reclaim ==
  /\ pc = "reclaim"
  /\ reclaim_calls' = reclaim_calls + 1
  /\ \E fail_at \in FreeFailures(backend, allocations, map) :
       LET r == free_all_except_faulty(allocations, map, fail_at)
       IN  /\ calls' = calls \o r.calls
           /\ allocations' = r.allocations
           /\ IF r.exited
              THEN Exit(1)
              ELSE pc' = "finalize_map" /\ UNCHANGED exit_code
  /\ UNCHANGED <<backend, cli, harness, vk_attempt, readbacks, locals, map, ok_count,
                 bad_count, finalized_after_oom,
                 scratch, strings, test_calls, reports>>

\* One of the two programs leaving the map as it is after the reclamation.
FinalizeMap_vulkan_skips ==
  /\ pc = "finalize_map"
  /\ map' = IF backend = "vulkan" THEN map ELSE finalize_map_after_oom(map)
  /\ pc' = "set_finalized"
  /\ UNCHANGED <<backend, cli, harness, vk_attempt, readbacks, exit_code, locals,
                 allocations, ok_count, bad_count,
                 finalized_after_oom, scratch, strings, calls, reclaim_calls,
                 test_calls, reports>>

\* main: finalize_map_after_oom(state.map).
FinalizeMap ==
  /\ pc = "finalize_map"
  /\ map' = finalize_map_after_oom(map)
  /\ pc' = "set_finalized"
  /\ UNCHANGED <<backend, cli, harness, vk_attempt, readbacks, exit_code, locals,
                 allocations, ok_count, bad_count,
                 finalized_after_oom, scratch, strings, calls, reclaim_calls,
                 test_calls, reports>>

\* main: state.finalized_after_oom = true.
SetFinalized ==
  /\ pc = "set_finalized"
  /\ finalized_after_oom' = TRUE
  /\ pc' = "render_final"
  /\ UNCHANGED <<backend, cli, harness, vk_attempt, readbacks, exit_code, locals,
                 allocations, map, ok_count, bad_count,
                 scratch, strings, calls, reclaim_calls, test_calls, reports>>

\* main: the final render_ui.
RenderFinal == Render("render_final", "park")

\* sleep_forever returning to its caller: main would go on below the if.
sleep_forever_returns ==
  /\ pc = "park"
  /\ pc' = "post_alloc"
  /\ UNCHANGED <<backend, cli, harness, vk_attempt, readbacks, exit_code, locals,
                 registry, scratch, strings, calls,
                 reclaim_calls, test_calls, reports>>

\* sleep_forever: [[noreturn]], while (true) sleep.
sleep_forever ==
  /\ pc = "park"
  /\ pc' = "parked"
  /\ UNCHANGED <<backend, cli, harness, vk_attempt, readbacks, exit_code, locals,
                 registry, scratch, strings, calls,
                 reclaim_calls, test_calls, reports>>

\* main going from the allocation to the verification without a report.
PostAlloc_skips_render ==
  /\ pc = "post_alloc"
  /\ this_idx' = (Len(allocations) - 1) % SizeModulus
  /\ last_status' = StatusFilling
  /\ last_md5_1' = ""
  /\ last_md5_2' = ""
  /\ pc' = "test_entry"
  /\ UNCHANGED <<backend, cli, harness, vk_attempt, readbacks, exit_code, idx, alloc_r,
                 registry, scratch, last_md5_ok, calls,
                 reclaim_calls, test_calls, reports>>

\* main taking the size of the list for the index of its last element.
PostAlloc_index_is_size ==
  /\ pc = "post_alloc"
  /\ this_idx' = Len(allocations) % SizeModulus
  /\ last_status' = StatusFilling
  /\ last_md5_1' = ""
  /\ last_md5_2' = ""
  /\ pc' = "render_pre_test"
  /\ UNCHANGED <<backend, cli, harness, vk_attempt, readbacks, exit_code, idx, alloc_r,
                 registry, scratch, last_md5_ok, calls,
                 reclaim_calls, test_calls, reports>>

\* main after a successful allocation: this_idx and the status.
PostAlloc ==
  /\ pc = "post_alloc"
  /\ this_idx' = (Len(allocations) - 1) % SizeModulus
  /\ last_status' = StatusFilling
  /\ last_md5_1' = ""
  /\ last_md5_2' = ""
  /\ pc' = "render_pre_test"
  /\ UNCHANGED <<backend, cli, harness, vk_attempt, readbacks, exit_code, idx, alloc_r,
                 registry, scratch, last_md5_ok, calls,
                 reclaim_calls, test_calls, reports>>

\* main: render_ui before the verification.
RenderPreTest == Render("render_pre_test", "test_entry")

\* test_pointer / test_slice: the range check, dptr, the status and the clears
\* (test_slice clears last_md5_ok too).
TestEntry ==
  /\ pc = "test_entry"
  /\ IF test_pointer_range_error(this_idx, allocations, map)
     THEN /\ Exit(1)
          /\ UNCHANGED <<strings, test_calls, delivered>>
     ELSE /\ pc' = "fill"
          /\ delivered' = <<>>
          /\ last_status' = StatusFilling
          /\ last_md5_ok' = IF backend = "vulkan" THEN "" ELSE last_md5_ok
          /\ last_md5_1' = ""
          /\ last_md5_2' = ""
          /\ test_calls' = [test_calls EXCEPT ![this_idx + 1] = @ + 1]
          /\ UNCHANGED exit_code
  /\ UNCHANGED <<backend, cli, harness, vk_attempt, readbacks, locals, registry, host1,
                 host2, staging, calls,
                 reclaim_calls, reports>>

\* The fill with its result left untested.
Fill_ignores_failure ==
  /\ pc = "fill"
  /\ \E ok \in BOOLEAN :
       calls' = Append(calls, Call("fill", allocations[this_idx + 1], ok))
  /\ pc' = "copy1"
  /\ UNCHANGED <<backend, cli, harness, vk_attempt, readbacks, exit_code, locals,
                 registry, scratch, strings,
                 reclaim_calls, test_calls, reports>>

\* test_pointer: die_cuda(cuMemsetD8(dptr, FILL_BYTE, slice_bytes));
\* test_slice: fill_pattern(s.buffer), which dies in end_submit_wait.
Fill ==
  /\ pc = "fill"
  /\ \E ok \in BOOLEAN :
       /\ calls' = Append(calls, Call("fill", allocations[this_idx + 1], ok))
       /\ IF ok THEN pc' = "copy1" /\ UNCHANGED exit_code ELSE Exit(1)
  /\ UNCHANGED <<backend, cli, harness, vk_attempt, readbacks, locals, registry, scratch,
                 strings, reclaim_calls,
                 test_calls, reports>>

\* readback_to_host(src, dst): the device copies the slice into the staging
\* buffer, memcpy copies the staging buffer to dst.  cuMemcpyDtoH(dst, dptr):
\* the device copies the slice to dst.  c is what the device delivers.
readback_staging(b, c, old) == IF b = "vulkan" THEN c ELSE old

\* test_pointer / test_slice: the first readback, into host1.
Copy1 ==
  /\ pc = "copy1"
  /\ last_status' = StatusCopy1
  /\ \E ok \in BOOLEAN, c \in Contents :
       /\ calls' = Append(calls, Call("copy1", allocations[this_idx + 1], ok))
       /\ IF ok
          THEN /\ host1' = c
               /\ staging' = readback_staging(backend, c, staging)
               /\ delivered' = Append(delivered, c)
               /\ pc' = "copy2"
               /\ UNCHANGED exit_code
          ELSE /\ c = host1
               /\ UNCHANGED <<host1, staging, delivered>>
               /\ Exit(1)
  /\ UNCHANGED <<backend, cli, harness, vk_attempt, readbacks, locals, registry, host2,
                 last_md5_ok, last_md5_1,
                 last_md5_2, reclaim_calls, test_calls, reports>>

\* The second readback landing in storage that host1 shares.
Copy2_aliased ==
  /\ pc = "copy2"
  /\ last_status' = StatusCopy2
  /\ \E ok \in BOOLEAN, c \in Contents :
       /\ calls' = Append(calls, Call("copy2", allocations[this_idx + 1], ok))
       /\ IF ok
          THEN /\ host2' = c
               /\ host1' = c
               /\ staging' = readback_staging(backend, c, staging)
               /\ delivered' = Append(delivered, c)
               /\ readbacks' = Append(readbacks, delivered[1] = c)
               /\ pc' = "compare"
               /\ UNCHANGED exit_code
          ELSE /\ c = host2
               /\ UNCHANGED <<host1, host2, staging, delivered, readbacks>>
               /\ Exit(1)
  /\ UNCHANGED <<backend, cli, harness, vk_attempt, locals, registry, last_md5_ok, last_md5_1,
                 last_md5_2, reclaim_calls, test_calls, reports>>

\* test_pointer / test_slice: the second readback, into host2.
Copy2 ==
  /\ pc = "copy2"
  /\ last_status' = StatusCopy2
  /\ \E ok \in BOOLEAN, c \in Contents :
       /\ calls' = Append(calls, Call("copy2", allocations[this_idx + 1], ok))
       /\ IF ok
          THEN /\ host2' = c
               /\ staging' = readback_staging(backend, c, staging)
               /\ delivered' = Append(delivered, c)
               /\ readbacks' = Append(readbacks, delivered[1] = c)
               /\ pc' = "compare"
               /\ UNCHANGED exit_code
          ELSE /\ c = host2
               /\ UNCHANGED <<host2, staging, delivered, readbacks>>
               /\ Exit(1)
  /\ UNCHANGED <<backend, cli, harness, vk_attempt, locals, registry, host1, last_md5_ok,
                 last_md5_1,
                 last_md5_2, reclaim_calls, test_calls, reports>>

\* A mismatch ending the session: the faulty slice is marked and main stops
\* allocating.
Compare_stops_on_mismatch ==
  /\ pc = "compare"
  /\ LET cmp == memcmp(host1, host2)
     IN  /\ map' = map_after(map, this_idx, cmp)
         /\ ok_count' = ok_after(ok_count, cmp)
         /\ bad_count' = bad_after(bad_count, cmp)
         /\ IF cmp # 0
            THEN /\ last_md5_1' = "DIFFERENT"
                 /\ last_md5_2' = "DIFFERENT"
                 /\ last_status' = StatusMismatch
                 /\ pc' = "oom_status"
                 /\ UNCHANGED last_md5_ok
            ELSE /\ last_md5_ok' = "MATCH"
                 /\ last_md5_1' = ""
                 /\ last_md5_2' = ""
                 /\ last_status' = StatusOK
                 /\ pc' = "render_post"
  /\ UNCHANGED <<backend, cli, harness, vk_attempt, readbacks, exit_code, locals,
                 allocations, finalized_after_oom,
                 scratch, calls, reclaim_calls, test_calls, reports>>

\* test_pointer / test_slice: memcmp and the marking.
Compare ==
  /\ pc = "compare"
  /\ LET cmp == memcmp(host1, host2)
     IN  /\ map' = map_after(map, this_idx, cmp)
         /\ ok_count' = ok_after(ok_count, cmp)
         /\ bad_count' = bad_after(bad_count, cmp)
         /\ IF cmp # 0
            THEN /\ last_md5_1' = "DIFFERENT"
                 /\ last_md5_2' = "DIFFERENT"
                 /\ last_status' = StatusMismatch
                 /\ UNCHANGED last_md5_ok
            ELSE /\ last_md5_ok' = "MATCH"
                 /\ last_md5_1' = ""
                 /\ last_md5_2' = ""
                 /\ last_status' = StatusOK
  /\ pc' = "render_post"
  /\ UNCHANGED <<backend, cli, harness, vk_attempt, readbacks, exit_code, locals,
                 allocations, finalized_after_oom,
                 scratch, calls, reclaim_calls, test_calls, reports>>

\* main: render_ui after the verification.
RenderPost == Render("render_post", "inc_idx")

\* main: ++idx, and around the loop.
IncIdx ==
  /\ pc = "inc_idx"
  /\ idx' = idx + 1
  /\ pc' = "render_top"
  /\ UNCHANGED <<backend, cli, harness, vk_attempt, readbacks, exit_code, this_idx,
                 alloc_r, registry, scratch, strings, calls,
                 reclaim_calls, test_calls, reports>>

Next ==
  \/ RenderTop
  \/ make_allocation_ok
  \/ make_allocation_fail
  \/ OomStatus
  \/ Reclaim
  \/ FinalizeMap
  \/ SetFinalized
  \/ RenderFinal
  \/ sleep_forever
  \/ PostAlloc
  \/ RenderPreTest
  \/ TestEntry
  \/ Fill
  \/ Copy1
  \/ Copy2
  \/ Compare
  \/ RenderPost
  \/ IncIdx

Spec == Init /\ [][Next]_vars

\* The two programs one after the other on the same backend outcomes: when the
\* first has ended, the other is started and every backend call of it returns
\* what the call at the same place returned to the first.

\* The outcomes in a call log: which call, and whether it succeeded.
Outcomes(log) == [j \in 1..Len(log) |-> <<log[j].op, log[j].ok>>]

\* What the core shows in a report.
CoreOf(r) ==
  [map |-> r.map, ok |-> r.ok, bad |-> r.bad, allocations_held |-> r.allocations_held,
   slices_held |-> r.slices_held, finalized |-> r.finalized]
CoreReports(rs) == [j \in 1..Len(rs) |-> CoreOf(rs[j])]

IsPrefix(a, b) == Len(a) <= Len(b) /\ \A i \in 1..Len(a) : a[i] = b[i]

OtherBackend(b) == IF b = "cuda" THEN "vulkan" ELSE "cuda"

\* The second program is given the outcomes the first one was given.
Follows ==
  run = 2 =>
    /\ IsPrefix(Outcomes(calls), first.calls)
    /\ IsPrefix(readbacks, first.readbacks)

\* The first program has ended (parked or exited): start the other one.
StartOther ==
  /\ run = 1
  /\ pc \in {"parked", "exited"}
  /\ run' = 2
  /\ first' = [calls |-> Outcomes(calls), readbacks |-> readbacks,
               reports |-> CoreReports(reports)]
  /\ backend' = OtherBackend(backend)
  /\ pc' = "render_top"
  /\ exit_code' = -1
  /\ idx' = 0
  /\ this_idx' = 0
  /\ alloc_r' = Success
  /\ allocations' = <<>>
  /\ map' = <<>>
  /\ ok_count' = 0
  /\ bad_count' = 0
  /\ host1' = ZeroBuffer
  /\ host2' = ZeroBuffer
  /\ staging' = ZeroBuffer
  /\ delivered' = <<>>
  /\ last_status' = StatusStarting
  /\ last_md5_ok' = ""
  /\ last_md5_1' = ""
  /\ last_md5_2' = ""
  /\ finalized_after_oom' = FALSE
  /\ calls' = <<>>
  /\ reclaim_calls' = 0
  /\ test_calls' = <<>>
  /\ reports' = <<>>
  /\ vk_attempt' = <<>>
  /\ readbacks' = <<>>
  /\ UNCHANGED cli

PairNext ==
  \/ Next /\ Follows'
  \/ StartOther

PairSpec == Init /\ [][PairNext]_vars

\* The program from its start, on every command line of ArgVectors.
CliInit ==
  /\ backend \in Backends
  /\ pc = "parse_args"
  /\ argv \in ArgVectors
  /\ exit_code = -1
  /\ idx = 0
  /\ this_idx = 0
  /\ alloc_r = Success
  /\ allocations = <<>>
  /\ map = <<>>
  /\ ok_count = 0
  /\ bad_count = 0
  /\ host1 = ZeroBuffer
  /\ host2 = ZeroBuffer
  /\ staging = ZeroBuffer
  /\ delivered = <<>>
  /\ last_status = StatusStarting
  /\ last_md5_ok = ""
  /\ last_md5_1 = ""
  /\ last_md5_2 = ""
  /\ finalized_after_oom = FALSE
  /\ calls = <<>>
  /\ reclaim_calls = 0
  /\ test_calls = <<>>
  /\ reports = <<>>
  /\ gpu_index = DefaultGpuIndex
  /\ slice_mib = DefaultSliceMib
  /\ usage_printed = 0
  /\ vk_attempt = <<>>
  /\ readbacks = <<>>
  /\ run = 1
  /\ first = NoFirst

CliNext ==
  \/ ParseArgs
  \/ InitBackend
  \/ Next

CliSpec == CliInit /\ [][CliNext]_vars

----------------------------------------------------------------------------
\* Properties.

Succeeded == AllocSucceeded(calls)
InMap(c) == {i \in 1..Len(map) : map[i] = c}
Held == {allocations[j] : j \in 1..Len(allocations)}

\* Positions of main after finalize_map_after_oom has run.
MapFinalized == pc \in {"set_finalized", "render_final", "park", "parked"}

\* The handles of the slices, in allocation order.
CreatedHandles == [k \in 1..Succeeded |-> HandleOf(calls, k)]

\* C1: once finalized_after_oom is set, every map entry that is not 'X' is '.'
\* and its handle has been freed, and every 'X' entry's handle was never passed
\* to free and is in the held-handle list.
C1_FinalizedPartition ==
  finalized_after_oom =>
    /\ Len(map) = Succeeded
    /\ \A i \in 1..Len(map) :
         /\ map[i] # "X" => map[i] = "." /\ HandleOf(calls, i) \in Freed(calls)
         /\ map[i] = "X" => /\ HandleOf(calls, i) \notin FreeArgs(calls)
                            /\ HandleOf(calls, i) \in Held

C1_Witness ==
  /\ finalized_after_oom
  /\ InMap("X") # {}
  /\ InMap(".") # {}

\* One step of the map, for C2.
C2_Transition ==
  /\ Len(map') >= Len(map)
  /\ \A i \in 1..Len(map) :
       /\ map[i] = "X" => map'[i] = "X"
       /\ map[i] # "?" => map'[i] # "?"
       /\ map'[i] # map[i] =>
            \/ map[i] = "?" /\ map'[i] \in {"#", "X"}
            \/ map[i] \in {"#", "?"} /\ map'[i] = "." /\ pc = "finalize_map"
  /\ \A i \in (Len(map) + 1)..Len(map') : map'[i] = "?"

\* C2: a map entry only moves '?' -> '#', '?' -> 'X', and, in the exhaustion
\* transition only, '#' or '?' -> '.'; an 'X' stays 'X' and a marked entry never
\* becomes '?' again; no entry disappears.
C2_MonotonicStates == [][C2_Transition]_vars

C2_Witness ==
  /\ pc = "parked"
  /\ \E i, j \in 1..Len(map) : map[i] = "X" /\ map[j] = "." /\ i < j

\* C3 as stated: ok_count + bad_count equals the number of successful
\* allocation attempts at every point before finalization.
C3_Original ==
  ~finalized_after_oom => ok_count + bad_count = Succeeded

\* C3 as amended: before finalization ok_count + bad_count plus the number of
\* InProgress slices equals the number of successful allocation attempts; the
\* sum alone equals it exactly when no slice is InProgress, and is one less
\* between a successful make_allocation and the marking of that slice.
C3_SumWithInProgress ==
  ~finalized_after_oom =>
    /\ ok_count + bad_count + count_char(map, "?") = Succeeded
    /\ count_char(map, "?") \in {0, 1}
    /\ (pc \in {"post_alloc", "render_pre_test", "test_entry", "fill", "copy1",
                "copy2", "compare"}) => count_char(map, "?") = 1
    /\ (pc \in {"render_post", "inc_idx", "render_top", "alloc", "oom_status",
                "reclaim", "finalize_map", "set_finalized"})
         => ok_count + bad_count = Succeeded

C3_Witness ==
  /\ ~finalized_after_oom
  /\ pc = "copy2"
  /\ Succeeded = 2
  /\ ok_count + bad_count = 1

\* C4 as stated: in every state ok_count is the number of '#' entries and
\* bad_count the number of 'X' entries.
C4_Original ==
  /\ ok_count = count_char(map, "#")
  /\ bad_count = count_char(map, "X")

\* C4 as amended: bad_count is the number of 'X' entries in every state;
\* ok_count is the number of '#' entries until finalize_map_after_oom rewrites
\* the map, and from then on (so in every finalized state) no entry is '#' and
\* ok_count is the number of '.' entries.
C4_CountersMatchMap ==
  /\ bad_count = count_char(map, "X")
  /\ ~MapFinalized /\ pc # "exited" => ok_count = count_char(map, "#")
  /\ pc = "exited" => ok_count = count_char(map, "#")
  /\ MapFinalized => count_char(map, "#") = 0 /\ ok_count = count_char(map, ".")
  /\ finalized_after_oom => MapFinalized

C4_Witness ==
  /\ finalized_after_oom
  /\ ok_count = 2
  /\ bad_count = 1
  /\ count_char(map, ".") = 2

\* One step of a finalized session, for C5.
C5_Step ==
  finalized_after_oom =>
    /\ UNCHANGED <<allocations, map, ok_count, bad_count, finalized_after_oom,
                   calls, reclaim_calls, test_calls, locals, exit_code>>
    /\ \/ pc = "render_final" /\ pc' = "park" /\ Len(reports') = Len(reports) + 1
       \/ pc = "park" /\ pc' = "parked" /\ reports' = reports

\* C5: once finalized_after_oom is set, no allocation, fill, readback or free is
\* issued and the map, the counters and the held-handle list never change; the
\* only steps are the one final report and then the entry into the wait.
C5_FinalizedIsTerminal == [][C5_Step]_vars

C5_Witness ==
  /\ pc = "parked"
  /\ finalized_after_oom
  /\ Len(allocations) = 2

\* C6: free_all_except_faulty is entered zero times while every allocation
\* attempt has succeeded, once as the response to the first failed attempt,
\* and never twice; no second allocation attempt fails.
C6_ReclaimOnce ==
  /\ reclaim_calls <= 1
  /\ AllocFailed(calls) <= 1
  /\ AllocFailed(calls) = 0 => reclaim_calls = 0
  /\ AllocFailed(calls) = 1 =>
       /\ reclaim_calls = (IF pc = "oom_status" \/ pc = "reclaim" THEN 0 ELSE 1)
       /\ \A i \in 1..Len(calls) :
            calls[i].op = "alloc" /\ ~calls[i].ok =>
              \A j \in (i + 1)..Len(calls) : calls[j].op = "free"

C6_Witness ==
  /\ reclaim_calls = 1
  /\ AllocFailed(calls) = 1
  /\ Succeeded = 2
  /\ pc = "parked"

FinalReports == {i \in 1..Len(reports) : reports[i].finalized}

\* C8: on allocation failure the status is recorded, then the handles are freed,
\* then the map is rewritten and finalized_after_oom set, then the final report
\* is drawn, then the wait is entered; the final report shows finalized, no
\* '#' and no '?', and as many held handles as bad_count.
C8_ExhaustionOrder ==
  /\ pc = "reclaim" =>
       /\ last_status = StatusStop(backend)
       /\ reclaim_calls = 0 /\ FreeArgs(calls) = {} /\ ~finalized_after_oom
  /\ pc \in {"finalize_map", "set_finalized"} =>
       /\ reclaim_calls = 1 /\ Freed(calls) = Allocated(calls) \ Held
       /\ ~finalized_after_oom /\ FinalReports = {}
  /\ pc = "render_final" => finalized_after_oom /\ FinalReports = {}
  /\ pc \in {"park", "parked"} =>
       /\ FinalReports = {Len(reports)}
       /\ LET r == reports[Len(reports)]
          IN  /\ r.finalized
              /\ \A i \in 1..Len(r.map) : r.map[i] \in {".", "X"}
              /\ r.allocations_held = r.bad
              /\ r.slices_held = r.bad
              /\ r.in_progress = 0
              /\ r.last_status = StatusStop(backend)
  /\ pc \notin {"park", "parked"} => FinalReports = {}

C8_Witness ==
  /\ pc = "parked"
  /\ reports[Len(reports)].finalized
  /\ reports[Len(reports)].map = <<".", "X", ".">>

\* C9 as stated: in every state the registry (handle list and map) has one
\* entry per successful allocation attempt, each at the index of its creation.
C9_Original ==
  /\ Len(map) = Succeeded
  /\ allocations = CreatedHandles

\* C9 as amended: in every state the map has one entry per successful
\* allocation attempt and no map entry is removed or moved; the handle list
\* has that shape until the reclamation, which compacts it to the handles of
\* the Faulty slices in their allocation order (its length is then bad_count).
C9_MapKeepsIndexesHandlesCompacted ==
  /\ Len(map) = Succeeded
  /\ Len(test_calls) = Succeeded
  /\ reclaim_calls = 0 => allocations = CreatedHandles
  /\ reclaim_calls = 1 /\ pc # "exited" =>
       /\ allocations = SelectSeq(CreatedHandles,
                                  LAMBDA h : \E i \in InMap("X") : HandleOf(calls, i) = h)
       /\ Len(allocations) = bad_count

C9_Witness ==
  /\ pc = "parked"
  /\ map = <<".", "X", "X">>
  /\ allocations = <<2, 3>>

\* C10: at most one map entry is '?', and only the last one; every earlier
\* slice has been verified exactly once, no slice more than once, and no
\* allocation is attempted while a slice is '?'.
C10_OneInProgressLast ==
  /\ Cardinality(InMap("?")) <= 1
  /\ \A i \in InMap("?") : i = Len(map)
  /\ pc \in {"alloc", "render_top"} => InMap("?") = {}
  /\ \A i \in 1..Len(map) :
       /\ test_calls[i] <= 1
       /\ map[i] \in {"#", "X"} => test_calls[i] = 1
       /\ i < Len(map) => test_calls[i] = 1
       /\ \A op \in {"fill", "copy1", "copy2"} :
            LET n == Cardinality({j \in CallsOf(calls, op) :
                                    calls[j].h = HandleOf(calls, i)})
            IN  /\ n <= test_calls[i]
                /\ map[i] \in {"#", "X", "."} => n = 1

C10_Witness ==
  /\ InMap("?") = {3}
  /\ map[1] = "X"
  /\ map[2] = "#"
  /\ pc = "copy1"

\* The last slice of the map is Faulty.
LastMarkedFaulty == Len(map) > 0 /\ map[Len(map)] = "X"

\* One step of a session around a Faulty verdict, for C11.
C11_Step ==
  /\ pc = "compare" /\ map'[this_idx + 1] = "X" =>
       /\ bad_count' = bad_count + 1
       /\ ok_count' = ok_count
       /\ pc' = "render_post"
       /\ exit_code' = -1
       /\ ~finalized_after_oom'
       /\ allocations' = allocations
       /\ calls' = calls
  /\ LastMarkedFaulty /\ pc \in {"render_post", "inc_idx", "render_top"} =>
       /\ UNCHANGED <<registry, calls, exit_code>>
       /\ pc' \in {"inc_idx", "render_top", "alloc"}
  /\ LastMarkedFaulty /\ pc = "alloc" =>
       /\ Len(calls') = Len(calls) + 1
       /\ calls'[Len(calls')].op = "alloc"
       /\ bad_count' = bad_count
       /\ HandleOf(calls, Len(map)) \in {allocations'[j] : j \in 1..Len(allocations')}
       /\ HandleOf(calls, Len(map)) \notin FreeArgs(calls')

\* C11: marking slice k Faulty increments bad_count by exactly 1, frees and
\* exits nothing, leaves the session running, and the next backend call issued
\* is the allocation attempt for slice k+1.
C11_FaultyKeepsRunning == [][C11_Step]_vars

C11_Witness ==
  /\ map = <<"#", "X", "?">>
  /\ bad_count = 1
  /\ pc = "post_alloc"
  /\ 2 \in Held

\* C12: the slice is marked '#' exactly when the content delivered to readback
\* #1 equals the content delivered to readback #2, and 'X' otherwise, whatever
\* the relation of either to the fill byte.
C12_VerdictIffEqual ==
  pc = "render_post" =>
    /\ Len(delivered) = 2
    /\ map[this_idx + 1] = "#" <=> delivered[1] = delivered[2]
    /\ map[this_idx + 1] = "X" <=> delivered[1] # delivered[2]

C12_Witness ==
  /\ pc = "render_post"
  /\ delivered = <<ZeroBuffer, ZeroBuffer>>
  /\ map[this_idx + 1] = "#"
  /\ \A i \in 1..SliceBytes : delivered[1][i] # FILL_BYTE

\* Positions of main inside test_pointer / test_slice.
InTest == pc \in {"test_entry", "fill", "copy1", "copy2", "compare"}

\* One step of the verification of slice this_idx, for C13.
C13_Step ==
  InTest =>
    /\ allocations' = allocations
    /\ Len(map') = Len(map)
    /\ \A i \in 1..Len(map) : i # this_idx + 1 => map'[i] = map[i]
    /\ \A j \in 1..Len(calls) : calls'[j] = calls[j]
    /\ \A j \in (Len(calls) + 1)..Len(calls') :
         /\ calls'[j].op \in {"fill", "copy1", "copy2"}
         /\ calls'[j].h = HandleOf(calls, this_idx + 1)
    /\ pc = "compare" =>
         /\ calls[Len(calls) - 1] = Call("copy1", HandleOf(calls, this_idx + 1), TRUE)
         /\ calls[Len(calls)] = Call("copy2", HandleOf(calls, this_idx + 1), TRUE)
         /\ map'[this_idx + 1] = (IF delivered[1] = delivered[2] THEN "#" ELSE "X")

\* C13: verifying slice k issues fill and readback calls on slice k's handle
\* only, allocates and frees nothing, leaves the glyph and the handle of every
\* other slice as they are, and its verdict is decided by the two readbacks of
\* slice k.
C13_VerifyTouchesOnlyItsSlice == [][C13_Step]_vars

C13_Witness ==
  /\ pc = "render_post"
  /\ this_idx = 2
  /\ map = <<"#", "X", "#">>
  /\ allocations = <<1, 2, 3>>

\* One step of make_allocation, for C14.
C14_Step ==
  pc = "alloc" =>
    /\ UNCHANGED <<ok_count, bad_count, finalized_after_oom, host1, host2, strings,
                   idx, exit_code>>
    /\ \/ /\ alloc_r' = Success
          /\ Len(allocations') = Len(allocations) + 1
          /\ SubSeq(allocations', 1, Len(allocations)) = allocations
          /\ allocations'[Len(allocations')] \notin Held
          /\ map' = Append(map, "?")
          /\ calls' = Append(calls, Call("alloc", allocations'[Len(allocations')], TRUE))
       \/ /\ alloc_r' \in AllocErrors(backend)
          /\ alloc_r' # Success
          /\ UNCHANGED <<allocations, map>>
          /\ Len(calls') = Len(calls) + 1
          /\ calls'[Len(calls')].op = "alloc" /\ ~calls'[Len(calls')].ok

\* C14: a successful make_allocation appends one handle and one '?' map entry
\* at the end and changes nothing else; a failed one returns the backend's
\* failure code and leaves the handle list, the map and both counters as they are.
C14_MakeAllocationEffect == [][C14_Step]_vars

C14_Witness ==
  /\ pc = "oom_status"
  /\ alloc_r \in AllocErrors(backend)
  /\ map = <<"#", "X">>
  /\ allocations = <<1, 2>>

\* The indexes a caller can pass to test_pointer.
TestIndexes == 0..MaxSlices

\* C15: test_pointer exits, leaving the map and both counters as they are,
\* whenever its index is out of range or the addressed slice is not '?'.
C15_Original ==
  \A i \in TestIndexes, c1 \in Contents, c2 \in Contents :
    (test_pointer_range_error(i, allocations, map) \/ map[i + 1] # "?") =>
      LET t == test_pointer(i, allocations, map, ok_count, bad_count, c1, c2)
      IN  /\ t.exited
          /\ t.map = map
          /\ t.ok_count = ok_count
          /\ t.bad_count = bad_count

\* The calls whose op is in ops and whose result is a failure.
FailedCalls(ops) == {j \in 1..Len(calls) : calls[j].op \in ops /\ ~calls[j].ok}

\* C16: a failed fill or readback is the last backend call of the process; the
\* process has exited with status 1, the slice of the call is the last one and
\* still '?', neither counter counted it, no comparison result was recorded,
\* and reclamation, finalization and the wait were never entered.
C16_VerifyFailureIsFatal ==
  \A j \in FailedCalls({"fill", "copy1", "copy2"}) :
    /\ j = Len(calls)
    /\ pc = "exited" /\ exit_code = 1
    /\ calls[j].h = allocations[Len(allocations)]
    /\ Len(allocations) = Len(map)
    /\ map[Len(map)] = "?"
    /\ ok_count + bad_count = Len(map) - 1
    /\ last_status \in {StatusFilling, StatusCopy1, StatusCopy2}
    /\ AllocFailed(calls) = 0
    /\ reclaim_calls = 0 /\ FreeArgs(calls) = {}
    /\ ~finalized_after_oom /\ FinalReports = {}

C16_Witness ==
  /\ pc = "exited"
  /\ map = <<"#", "?">>
  /\ FailedCalls({"copy2"}) # {}

\* C17: a failed free is the last backend call of the process; the process has
\* exited with status 1, the handle was a non-faulty one, the map was not
\* rewritten, finalized_after_oom is not set and no final report was drawn.
C17_FreeFailureIsFatal ==
  \A j \in FailedCalls({"free"}) :
    /\ j = Len(calls)
    /\ pc = "exited" /\ exit_code = 1
    /\ \E i \in 1..Len(map) : HandleOf(calls, i) = calls[j].h /\ map[i] \in {"#", "?"}
    /\ InMap(".") = {}
    /\ reclaim_calls = 1
    /\ ~finalized_after_oom /\ FinalReports = {}

C17_Witness ==
  /\ pc = "exited"
  /\ map = <<"#", "X", "#">>
  /\ FailedCalls({"free"}) # {}
  /\ Freed(calls) # {}

\* Positions of main inside the allocation-failure branch.
ExhaustionPath ==
  {"oom_status", "reclaim", "finalize_map", "set_finalized", "render_final",
   "park", "parked"}

\* C18: once an allocation attempt has failed, main is on the exhaustion path
\* and has not exited.
C18_Original ==
  AllocFailed(calls) > 0 => pc \in ExhaustionPath /\ exit_code = -1

\* C18: a failed allocation attempt, whatever its code and the registry, puts
\* main on the exhaustion path and is the last allocation attempt; the only
\* exit after it is the one of a failed cuMemFree during reclamation (CUDA),
\* and a session that parks has reclaimed once, finalized and drawn the final
\* report.
C18_AllocFailureTakesExhaustionPath ==
  AllocFailed(calls) > 0 =>
    /\ AllocFailed(calls) = 1
    /\ alloc_r \in AllocErrors(backend)
    /\ pc \in ExhaustionPath \cup {"exited"}
    /\ pc = "exited" =>
         /\ backend = "cuda"
         /\ exit_code = 1
         /\ reclaim_calls = 1
         /\ FailedCalls({"free"}) # {}
    /\ pc \in ExhaustionPath => exit_code = -1
    /\ pc = "parked" =>
         /\ reclaim_calls = 1
         /\ finalized_after_oom
         /\ FinalReports # {}

C18_Witness ==
  /\ pc = "parked"
  /\ map = <<>>
  /\ calls = <<Call("alloc", 0, FALSE)>>
  /\ alloc_r \in {"CUDA_ERROR_UNKNOWN", "VK_ERROR_FEATURE_NOT_PRESENT"}

\* C19: an allocation failure with no Faulty slice never exits; after it the
\* handle list is empty, every handle was freed, the map is all '.', the flag
\* is set and main parks.
C19_Original ==
  AllocFailed(calls) > 0 /\ bad_count = 0 =>
    /\ pc # "exited"
    /\ pc \in {"finalize_map", "set_finalized", "render_final", "park", "parked"} =>
         allocations = <<>> /\ Freed(calls) = Allocated(calls)
    /\ MapFinalized => \A i \in 1..Len(map) : map[i] = "."
    /\ pc \in {"render_final", "park", "parked"} => finalized_after_oom

\* C19: an allocation failure with no Faulty slice exits only through a failed
\* cuMemFree (CUDA); otherwise reclamation frees every allocated handle and
\* empties the handle list, the map becomes all '.', finalized_after_oom is set
\* and main parks, the final report showing no held slice.
C19_NoFaultyReleasesAll ==
  AllocFailed(calls) > 0 /\ bad_count = 0 =>
    /\ pc \in ExhaustionPath \cup {"exited"}
    /\ pc = "exited" =>
         backend = "cuda" /\ exit_code = 1 /\ FailedCalls({"free"}) # {}
    /\ FailedCalls({"free"}) = {} => pc # "exited" /\ exit_code = -1
    /\ pc \in {"finalize_map", "set_finalized", "render_final", "park", "parked"} =>
         /\ allocations = <<>>
         /\ Freed(calls) = Allocated(calls)
         /\ Cardinality(Freed(calls)) = Succeeded
    /\ MapFinalized => Len(map) = Succeeded /\ \A i \in 1..Len(map) : map[i] = "."
    /\ pc \in {"render_final", "park", "parked"} => finalized_after_oom
    /\ pc \in {"park", "parked"} =>
         \E i \in FinalReports :
           reports[i].slices_held = 0 /\ reports[i].map = map

C19_Witness ==
  /\ pc = "parked"
  /\ map = <<".", ".">>
  /\ allocations = <<>>
  /\ Freed(calls) = {1, 2}
  /\ bad_count = 0

----------------------------------------------------------------------------
\* The session on a backend whose fill, readback and free calls all succeed and
\* that refuses an allocation after at most MaxSlices slices.

EnvOK == FailedCalls({"fill", "copy1", "copy2", "free"}) = {}

LiveNext == Next /\ EnvOK'

\* main is a sequential program: it takes its next step whenever it has one.
LiveSpec == Init /\ [][LiveNext]_vars /\ WF_vars(LiveNext)

\* C20: when every fill, readback and free succeeds, main eventually parks,
\* finalized, for good, every successfully allocated slice having been
\* verified exactly once and the allocation refused exactly once, after them.
C20_EventuallyParked ==
  <>[](/\ pc = "parked"
       /\ finalized_after_oom
       /\ Succeeded = Len(map)
       /\ \A i \in 1..Len(map) : test_calls[i] = 1
       /\ \A op \in {"fill", "copy1", "copy2"} : Cardinality(CallsOf(calls, op)) = Succeeded
       /\ AllocFailed(calls) = 1
       /\ calls[4 * Succeeded + 1] = Call("alloc", 0, FALSE))

C20_Witness ==
  /\ pc = "parked"
  /\ EnvOK
  /\ Succeeded = MaxSlices
  /\ InMap("X") # {}
  /\ \A i \in 1..MaxSlices : test_calls[i] = 1

----------------------------------------------------------------------------
\* The reports of slice i (1-based) that show it, and the glyph they show.
ReportsShowing(i, glyphs) ==
  {j \in 1..Len(reports) : Len(reports[j].map) >= i /\ reports[j].map[i] \in glyphs}

\* The report main has just drawn is the one of the current state.
JustReported == Len(reports) > 0 /\ reports[Len(reports)] = CurrentReport

\* Where main stands and what it has reported, for C22.
C22_Inv ==
  /\ pc = "alloc" => JustReported
  /\ pc = "test_entry" => JustReported /\ map[Len(map)] = "?"
  /\ pc = "inc_idx" => JustReported /\ map[Len(map)] \in {"#", "X"}
  /\ pc \in {"alloc", "post_alloc", "render_pre_test"} =>
       Len(reports) = 3 * (ok_count + bad_count) + 1
  /\ pc \in {"test_entry", "fill", "copy1", "copy2", "compare", "render_post"} =>
       Len(reports) = 3 * (ok_count + bad_count + IF pc = "render_post" THEN 0 ELSE 1) - 1
  /\ \A i \in 1..Len(map) :
       \A j \in ReportsShowing(i, {"#", "X", "."}) :
         \E k \in ReportsShowing(i, {"?"}) : k < j

\* No report inside a verification, for C22.
C22_Step ==
  pc \in {"test_entry", "fill", "copy1", "copy2", "compare"} => reports' = reports

\* C22: main reports right before each allocation attempt, right after a
\* successful allocation and before its verification, and right after the
\* slice is marked; every slice a report shows as '#', 'X' or '.' was shown as
\* '?' by an earlier report; no report is drawn between the start of a
\* verification and its marking.
C22_ReportPoints == [](C22_Inv) /\ [][C22_Step]_vars

C22_Witness ==
  /\ pc = "inc_idx"
  /\ map = <<"#", "X">>
  /\ Len(reports) = 6
  /\ reports[5].map = <<"#", "?">>
  /\ reports[6].map = <<"#", "X">>

\* One step of the second readback and of the comparison, for C23.
C23_Step ==
  /\ pc = "copy2" =>
       /\ host1' = host1
       /\ pc' = "compare" =>
            /\ host1' = delivered'[1]
            /\ host2' = delivered'[2]
            /\ LET n == Len(calls')
                   h == allocations[this_idx + 1]
               IN  /\ calls'[n - 2] = Call("fill", h, TRUE)
                   /\ calls'[n - 1] = Call("copy1", h, TRUE)
                   /\ calls'[n] = Call("copy2", h, TRUE)
  /\ pc = "compare" =>
       /\ host1 = delivered[1] /\ host2 = delivered[2]
       /\ map'[this_idx + 1] = "#" <=> delivered[1] = delivered[2]

\* C23: the second readback leaves host1 as the first readback wrote it, so
\* memcmp compares what readback #1 and readback #2 of one fill of the slice
\* delivered, under Vulkan (shared staging buffer) as under CUDA.
C23_HostBuffersNotAliased == [][C23_Step]_vars

C23_Witness ==
  /\ backend = "vulkan"
  /\ pc = "compare"
  /\ host1 # host2
  /\ staging = host2
  /\ delivered = <<host1, host2>>

\* C25: main calls test_pointer with the last index of both the handle list
\* and the map, the two have the same length until reclamation has run, and a
\* process that has exited did so on a failed backend call, never on a
\* consistency check.
C25_ConsistencyExitsUnreachable ==
  /\ reclaim_calls = 0 => Len(allocations) = Len(map)
  /\ pc = "test_entry" =>
       /\ this_idx = Len(allocations) - 1
       /\ this_idx = Len(map) - 1
       /\ ~test_pointer_range_error(this_idx, allocations, map)
  /\ pc = "reclaim" => Len(allocations) = Len(map)
  /\ pc = "exited" =>
       /\ exit_code = 1
       /\ FailedCalls({"fill", "copy1", "copy2", "free"}) = {Len(calls)}

C25_Witness ==
  /\ pc = "parked"
  /\ Len(map) = MaxSlices
  /\ \A i \in 1..MaxSlices : test_calls[i] = 1
  /\ reclaim_calls = 1

\* The calls of the log that are frees / fills and readbacks.
FreeCalls == CallsOf(calls, "free")
VerifyCalls == CallsOf(calls, "fill") \cup CallsOf(calls, "copy1") \cup CallsOf(calls, "copy2")

\* C26: each successfully allocated handle is passed to free at most once,
\* every freed handle came from a successful allocation, no fill or readback
\* follows a free, and every free follows a failed allocation attempt.
C26_HandleLifecycle ==
  /\ Cardinality(Allocated(calls)) = Succeeded
  /\ \A j \in FreeCalls : calls[j].h \in Allocated(calls)
  /\ \A j \in FreeCalls, k \in FreeCalls : calls[j].h = calls[k].h => j = k
  /\ \A j \in VerifyCalls, k \in FreeCalls : j < k
  /\ \A k \in FreeCalls :
       \E j \in CallsOf(calls, "alloc") : j < k /\ ~calls[j].ok

C26_Witness ==
  /\ pc = "parked"
  /\ map = <<".", "X", ".">>
  /\ Cardinality(FreeCalls) = 2
  /\ allocations = <<2>>

\* The slice marked last is Faulty.
LatestVerdictFaulty ==
  LET marked == {i \in 1..Len(map) : map[i] # "?"}
  IN  marked # {} /\ \A i \in marked : (\A k \in marked : k <= i) => map[i] = "X"

\* C28: a report drawn while the slice marked last is Faulty does not show
\* 'Last compare: MATCH'.
C28_Original ==
  [][Len(reports') > Len(reports) /\ LatestVerdictFaulty =>
       reports'[Len(reports')].compare # "MATCH"]_vars

----------------------------------------------------------------------------
\* The calls of the latest Vulkan allocation attempt that created / released obj.
VkCreated(obj) ==
  {j \in 1..Len(vk_attempt) :
     /\ vk_attempt[j].op \in {"vkCreateBuffer", "vkAllocateMemory"}
     /\ vk_attempt[j].obj = obj
     /\ vk_attempt[j].ok}
VkReleased(obj) ==
  {j \in 1..Len(vk_attempt) :
     /\ vk_attempt[j].op \in {"vkDestroyBuffer", "vkFreeMemory"}
     /\ vk_attempt[j].obj = obj}

\* C27: after a failed Vulkan make_allocation, the buffer and the memory that
\* the attempt created have each been released by exactly one call, after
\* their creation, what it did not create was not released, and the registry
\* has no entry for the attempt; a successful attempt released nothing.
C27_VulkanAttemptReleasesOnce ==
  backend = "vulkan" =>
    /\ AllocFailed(calls) > 0 =>
         /\ Len(vk_attempt) > 0
         /\ vk_attempt[1].op = "vkCreateBuffer"
         /\ \A obj \in {"BUF", "MEM"} :
              /\ Cardinality(VkCreated(obj)) <= 1
              /\ Cardinality(VkReleased(obj)) = Cardinality(VkCreated(obj))
              /\ \A c \in VkCreated(obj), d \in VkReleased(obj) : c < d
         /\ \A j \in 1..Len(vk_attempt) :
              ~vk_attempt[j].ok => \A k \in (j + 1)..Len(vk_attempt) :
                                     vk_attempt[k].op \in {"vkDestroyBuffer", "vkFreeMemory"}
    /\ pc = "oom_status" =>
         /\ Len(allocations) = Succeeded
         /\ Len(map) = Succeeded
         /\ InMap("?") = {}
    /\ pc = "post_alloc" =>
         /\ VkReleased("BUF") = {} /\ VkReleased("MEM") = {}
         /\ Cardinality(VkCreated("BUF")) = 1 /\ Cardinality(VkCreated("MEM")) = 1

C27_Witness ==
  /\ backend = "vulkan"
  /\ pc = "oom_status"
  /\ Len(map) = 2
  /\ Len(vk_attempt) = 5
  /\ vk_attempt[3] = VkCall("vkBindBufferMemory", "BUF", FALSE)
  /\ VkReleased("MEM") = {4}
  /\ VkReleased("BUF") = {5}

----------------------------------------------------------------------------
\* The first argument is the help flag.
HelpFirst(av) == Len(av) >= 1 /\ av[1] \in HelpFlags

\* An argument main does not accept at its position.
BadGpuArg(av) == Len(av) >= 1 /\ av[1] \notin HelpFlags /\ ~parse_u32(av[1]).ok
BadMibArg(av) ==
  Len(av) >= 2 /\ (~parse_u32(av[2]).ok \/ parse_u32(av[2]).value = <<0>>)
Excess(av) == Len(av) > 2

\* The process ended in main's argument handling with the usage message.
UsageExit == pc = "exited" /\ usage_printed = 1 /\ calls = <<>> /\ reports = <<>>

----------------------------------------------------------------------------
\* C21: the other program, given the outcomes the first one was given, has
\* drawn no report the first one did not draw, each of its reports shows the
\* map, ok_count, bad_count, number of held handles and finalized flag of the
\* first one's report at the same place, and once it has been given all the
\* outcomes and stopped it has drawn as many reports and stopped the same way.
C21_BackendsAgreeOnCore ==
  run = 2 =>
    /\ Len(reports) <= Len(first.reports)
    /\ \A j \in 1..Len(reports) : CoreOf(reports[j]) = first.reports[j]
    /\ pc \in {"parked", "exited"} /\ Outcomes(calls) = first.calls =>
         Len(reports) = Len(first.reports)

C21_Witness ==
  /\ run = 2
  /\ backend = "vulkan"
  /\ pc = "parked"
  /\ map = <<".", "X", ".">>
  /\ Len(reports) = Len(first.reports)
  /\ Len(reports) = 11

====
